---------------------------- MODULE Spec2Model ----------------------------
(***************************************************************************)
(* Model of contentful_management/errors.py: get_error and the HTTPError   *)
(* class hierarchy (message composition, per-status detail formatting,     *)
(* the rate-limit reset header).                                           *)
(*                                                                         *)
(* Representation.                                                         *)
(*   - A Python string is a sequence of chunks (TLA+ strings).  Literals   *)
(*     of the source are one chunk; digits produced or read by int/format  *)
(*     are one chunk per character.  Iterating a string or testing a       *)
(*     substring works chunk by chunk.                                     *)
(*   - A JSON / Python value is a tagged record:                           *)
(*       [t |-> "null"], [t |-> "bool", v], [t |-> "int", v],              *)
(*       [t |-> "str", v |-> chunks], [t |-> "list", v |-> seq of values], *)
(*       [t |-> "dict", v |-> seq of [k |-> chunks, v |-> value]]          *)
(*     (a dict keeps insertion order, as Python's does).                   *)
(*   - An operation that can raise returns [exc |-> name, ...]; exc = ""   *)
(*     means it returned normally.                                         *)
(*   - Built-ins (str, repr, int, in, [], join, dict order) behave as in    *)
(*     Python 3; response.headers compares header names case-insensitively *)
(*     and response.json() raises the JSON decode error on a bad body.     *)
(***************************************************************************)
EXTENDS Integers, Sequences, FiniteSets, TLC

VARIABLES response, pc, error_class, outcome, reset

vars == <<response, pc, error_class, outcome, reset>>

(***************************************************************************)
(* Bounds of the model.                                                    *)
(***************************************************************************)
\* longest details.errors list a response body carries
MaxErrors == 2

(***************************************************************************)
(* Python values.                                                          *)
(***************************************************************************)
None == [t |-> "null"]

PyBool(b) == [t |-> "bool", v |-> b]

PyInt(n) == [t |-> "int", v |-> n]

PyStr(s) == [t |-> "str", v |-> s]

PyList(s) == [t |-> "list", v |-> s]

PyDict(s) == [t |-> "dict", v |-> s]

KV(key, val) == [k |-> <<key>>, v |-> val]

S(chunk) == PyStr(<<chunk>>)

\* key in d, for a dict d
DictHas(d, key) == \E i \in 1..Len(d.v) : d.v[i].k = key

\* d[key], for a dict d that has the key
DictItem(d, key) == d.v[CHOOSE i \in 1..Len(d.v) : d.v[i].k = key].v

\* d.get(key, None)
DictGet(d, key) == IF DictHas(d, key) THEN DictItem(d, key) ELSE None

\* d[key] = val: an existing key keeps its place, a new key goes last
DictSet(d, key, val) ==
    IF DictHas(d, key)
    THEN PyDict([i \in 1..Len(d.v) |->
                    IF d.v[i].k = key THEN [k |-> key, v |-> val] ELSE d.v[i]])
    ELSE PyDict(Append(d.v, [k |-> key, v |-> val]))

\* sep.join(items), items a sequence of chunk sequences
RECURSIVE Join(_, _)
Join(sep, items) ==
    IF Len(items) = 0 THEN <<>>
    ELSE IF Len(items) = 1 THEN items[1]
    ELSE items[1] \o sep \o Join(sep, Tail(items))

\* whether chunk sequence sub occurs in chunk sequence s ('sub' in s)
Contains(s, sub) ==
    \E i \in 0..(Len(s) - Len(sub)) :
        \A j \in 1..Len(sub) : s[i + j] = sub[j]

(***************************************************************************)
(* Integers and their decimal text.                                        *)
(***************************************************************************)
Digits == <<"0", "1", "2", "3", "4", "5", "6", "7", "8", "9">>

IsDigit(c) == \E d \in 1..10 : Digits[d] = c

DigitVal(c) == (CHOOSE d \in 1..10 : Digits[d] = c) - 1

RECURSIVE NatStr(_)
NatStr(n) ==
    IF n < 10 THEN <<Digits[n + 1]>>
    ELSE NatStr(n \div 10) \o <<Digits[(n % 10) + 1]>>

\* str(n) / "{0}".format(n) for an integer n
IntStr(n) == IF n < 0 THEN <<"-">> \o NatStr(0 - n) ELSE NatStr(n)

RECURSIVE DigitsVal(_, _)
DigitsVal(s, acc) ==
    IF Len(s) = 0 THEN acc
    ELSE DigitsVal(Tail(s), acc * 10 + DigitVal(Head(s)))

AllDigits(s) == Len(s) > 0 /\ \A i \in 1..Len(s) : IsDigit(s[i])

\* int(s) for a string s: an optional sign and decimal digits, else ValueError
IntOf(s) ==
    LET signed == Len(s) > 0 /\ s[1] \in {"-", "+"}
        body   == IF signed THEN Tail(s) ELSE s
    IN  IF ~AllDigits(body) THEN [exc |-> "ValueError", val |-> 0]
        ELSE [exc |-> "",
              val |-> IF signed /\ s[1] = "-" THEN 0 - DigitsVal(body, 0)
                      ELSE DigitsVal(body, 0)]

(***************************************************************************)
(* str() and repr() of a Python value.                                     *)
(***************************************************************************)
RECURSIVE Repr(_)
Repr(x) ==
    CASE x.t = "null" -> <<"None">>
      [] x.t = "bool" -> IF x.v THEN <<"True">> ELSE <<"False">>
      [] x.t = "int"  -> IntStr(x.v)
      [] x.t = "str"  -> <<"'">> \o x.v \o <<"'">>
      [] x.t = "list" ->
            <<"[">> \o Join(<<", ">>, [i \in 1..Len(x.v) |-> Repr(x.v[i])]) \o <<"]">>
      [] x.t = "dict" ->
            <<"{">> \o Join(<<", ">>,
                           [i \in 1..Len(x.v) |->
                               <<"'">> \o x.v[i].k \o <<"'">> \o <<": ">> \o Repr(x.v[i].v)])
                   \o <<"}">>

\* str(x), which "{0}".format(x) uses
Str(x) == IF x.t = "str" THEN x.v ELSE Repr(x)

(***************************************************************************)
(* The response object handed to get_error: status_code, headers (a        *)
(* case-insensitive mapping), text (the raw body) and json().              *)
(***************************************************************************)
\* lower-casing of the header names that occur
Lower(name) ==
    CASE name = "X-Contentful-RateLimit-Reset" -> "x-contentful-ratelimit-reset"
      [] name = "Content-Type" -> "content-type"
      [] OTHER -> name

\* key in response.headers
HeaderHas(headers, key) ==
    \E i \in 1..Len(headers) : Lower(headers[i].name) = Lower(key)

\* response.headers[key]
HeaderItem(headers, key) ==
    IF HeaderHas(headers, key)
    THEN [exc |-> "",
          val |-> headers[CHOOSE i \in 1..Len(headers) :
                              Lower(headers[i].name) = Lower(key)].value]
    ELSE [exc |-> "KeyError", val |-> <<>>]

\* the chunk at position i of a text, "" past its end
Tok(text, i) == IF i >= 1 /\ i <= Len(text) THEN text[i] ELSE ""

ParseFail == [ok |-> FALSE, val |-> None, next |-> 0]

ParseOk(val, next) == [ok |-> TRUE, val |-> val, next |-> next]

\* a JSON string: a quote, content chunks, the closing quote
ParseString(text, i) ==
    IF Tok(text, i) # "\"" THEN ParseFail
    ELSE LET closing == {j \in (i + 1)..Len(text) : text[j] = "\""}
         IN  IF closing = {} THEN ParseFail
             ELSE LET j == CHOOSE c \in closing : \A d \in closing : c <= d
                  IN  ParseOk(PyStr(SubSeq(text, i + 1, j - 1)), j + 1)

\* a JSON integer: an optional minus, then 0 or digits that do not start with 0
ParseNumber(text, i) ==
    LET start == IF Tok(text, i) = "-" THEN i + 1 ELSE i
        stop  == CHOOSE j \in start..(Len(text) + 1) :
                    /\ \A m \in start..(j - 1) : IsDigit(text[m])
                    /\ ~IsDigit(Tok(text, j))
        body  == SubSeq(text, start, stop - 1)
    IN  IF Len(body) = 0 \/ (Len(body) > 1 /\ body[1] = "0") THEN ParseFail
        ELSE ParseOk(PyInt(IF start > i THEN 0 - DigitsVal(body, 0)
                           ELSE DigitsVal(body, 0)), stop)

RECURSIVE ParseValue(_, _)
RECURSIVE ParseElements(_, _, _)
RECURSIVE ParseMembers(_, _, _)
ParseValue(text, i) ==
    LET c == Tok(text, i)
    IN  CASE c = "null"  -> ParseOk(None, i + 1)
          [] c = "true"  -> ParseOk(PyBool(TRUE), i + 1)
          [] c = "false" -> ParseOk(PyBool(FALSE), i + 1)
          [] c = "\""    -> ParseString(text, i)
          [] c = "-" \/ IsDigit(c) -> ParseNumber(text, i)
          [] c = "["     -> IF Tok(text, i + 1) = "]"
                            THEN ParseOk(PyList(<<>>), i + 2)
                            ELSE ParseElements(text, i + 1, <<>>)
          [] c = "{"     -> IF Tok(text, i + 1) = "}"
                            THEN ParseOk(PyDict(<<>>), i + 2)
                            ELSE ParseMembers(text, i + 1, PyDict(<<>>))
          [] OTHER       -> ParseFail

ParseElements(text, i, acc) ==
    LET r == ParseValue(text, i)
    IN  IF ~r.ok THEN ParseFail
        ELSE CASE Tok(text, r.next) = "," ->
                     ParseElements(text, r.next + 1, Append(acc, r.val))
               [] Tok(text, r.next) = "]" ->
                     ParseOk(PyList(Append(acc, r.val)), r.next + 1)
               [] OTHER -> ParseFail

ParseMembers(text, i, acc) ==
    LET key == ParseString(text, i)
    IN  IF ~key.ok \/ Tok(text, key.next) # ":" THEN ParseFail
        ELSE LET r == ParseValue(text, key.next + 1)
             IN  IF ~r.ok THEN ParseFail
                 ELSE CASE Tok(text, r.next) = "," ->
                              ParseMembers(text, r.next + 1,
                                           DictSet(acc, key.val.v, r.val))
                        [] Tok(text, r.next) = "}" ->
                              ParseOk(DictSet(acc, key.val.v, r.val), r.next + 1)
                        [] OTHER -> ParseFail

\* response.json(): the parsed body, or the JSON decode error
json(resp) ==
    LET r == ParseValue(resp.text, 1)
    IN  IF r.ok /\ r.next = Len(resp.text) + 1
        THEN [exc |-> "", val |-> r.val]
        ELSE [exc |-> "JSONDecodeError", val |-> None]

\* the wire text of a JSON value (what the server sends for it)
RECURSIVE Dumps(_)
Dumps(x) ==
    CASE x.t = "null" -> <<"null">>
      [] x.t = "bool" -> IF x.v THEN <<"true">> ELSE <<"false">>
      [] x.t = "int"  -> IntStr(x.v)
      [] x.t = "str"  -> <<"\"">> \o x.v \o <<"\"">>
      [] x.t = "list" ->
            <<"[">> \o Join(<<",">>, [i \in 1..Len(x.v) |-> Dumps(x.v[i])]) \o <<"]">>
      [] x.t = "dict" ->
            <<"{">> \o Join(<<",">>,
                           [i \in 1..Len(x.v) |->
                               <<"\"">> \o x.v[i].k \o <<"\"">> \o <<":">>
                                   \o Dumps(x.v[i].v)])
                   \o <<"}">>

(***************************************************************************)
(* Exceptions.                                                             *)
(***************************************************************************)
\* issubclass(exc, cls) for the built-in exception classes that occur
IsSubclass(exc, cls) ==
    \/ exc = cls
    \/ cls = "Exception"
    \/ exc = "JSONDecodeError" /\ cls = "ValueError"
    \/ exc = "KeyError" /\ cls = "LookupError"

\* utils.json_error_class(): the class response.json() raises on a bad body
json_error_class == "JSONDecodeError"

\* utils.string_class(): isinstance(x, string_class())
IsString(x) == x.t = "str"

\* 'key' in x, for any Python value x
PyIn(key, x) ==
    CASE x.t = "dict" -> [exc |-> "", val |-> DictHas(x, key)]
      [] x.t = "str"  -> [exc |-> "", val |-> Contains(x.v, key)]
      [] x.t = "list" -> [exc |-> "",
                          val |-> \E i \in 1..Len(x.v) : x.v[i] = PyStr(key)]
      [] OTHER        -> [exc |-> "TypeError", val |-> FALSE]

\* x['key'], for any Python value x
PyItem(x, key) ==
    CASE x.t = "dict" -> IF DictHas(x, key)
                         THEN [exc |-> "", val |-> DictItem(x, key)]
                         ELSE [exc |-> "KeyError", val |-> None]
      [] OTHER        -> [exc |-> "TypeError", val |-> None]

\* the items a for loop (or str.join) draws from x
PyIter(x) ==
    CASE x.t = "list" -> [exc |-> "", val |-> x.v]
      [] x.t = "str"  -> [exc |-> "", val |-> [i \in 1..Len(x.v) |-> S(x.v[i])]]
      [] x.t = "dict" -> [exc |-> "", val |-> [i \in 1..Len(x.v) |-> PyStr(x.v[i].k)]]
      [] OTHER        -> [exc |-> "TypeError", val |-> <<>>]

\* sep.join(x): every item must be a string
PyJoin(sep, x) ==
    LET it == PyIter(x)
    IN  IF it.exc # "" THEN [exc |-> it.exc, val |-> <<>>]
        ELSE IF \E i \in 1..Len(it.val) : it.val[i].t # "str"
        THEN [exc |-> "TypeError", val |-> <<>>]
        ELSE [exc |-> "", val |-> Join(sep, [i \in 1..Len(it.val) |-> it.val[i].v])]

(***************************************************************************)
(* The error classes.  A class is named by its Python name; a method of    *)
(* the hierarchy takes the class (self's type) as its first argument.      *)
(***************************************************************************)
RATE_LIMIT_RESET_HEADER_KEY == "x-contentful-ratelimit-reset"

Ret(val) == [exc |-> "", val |-> val]

Raise(exc) == [exc |-> exc, val |-> <<>>]

\* the _default_error_message overrides of the ten subclasses
default_messages ==
    ("BadRequestError" :>
        <<"The request was malformed or missing a required parameter.">>)
    @@ ("UnauthorizedError" :>
        <<"The authorization token was invalid.">>)
    @@ ("AccessDeniedError" :>
        <<"The specified token does not have access to the requested resource.">>)
    @@ ("NotFoundError" :>
        <<"The requested resource or endpoint could not be found.">>)
    @@ ("VersionMismatchError" :>
        <<"Version mismatch error. The version you specified was incorrect. This may be due to someone else editing the content.">>)
    @@ ("UnprocessableEntityError" :>
        <<"The resource you sent in the body is invalid.">>)
    @@ ("RateLimitExceededError" :>
        <<"Rate limit exceeded. Too many requests.">>)
    @@ ("ServerError" :>
        <<"Internal server error.">>)
    @@ ("BadGatewayError" :>
        <<"The requested space is hibernated.">>)
    @@ ("ServiceUnavailableError" :>
        <<"The request was malformed or missing a required parameter.">>)

\* ServerError without its override answers with the base class's text
default_error_message_base(cls, resp) ==
    IF cls = "ServerError" \/ cls \notin DOMAIN default_messages
    THEN <<"The following error was received: ">> \o resp.text
    ELSE default_messages[cls]

\* the base class's text without the body it received
default_error_message_no_text(cls, resp) ==
    IF cls \in DOMAIN default_messages THEN default_messages[cls]
    ELSE <<"The following error was received: ">>

\* self._default_error_message()
default_error_message(cls, resp) ==
    IF cls \in DOMAIN default_messages THEN default_messages[cls]
    ELSE <<"The following error was received: ">> \o resp.text

\* HTTPError._handle_details: "{0}".format(details)
HTTPError_handle_details(details) == Ret(Str(details))

\* _handle_detail dropping an entry that is a plain string
BadRequest_handle_detail_skip_strings(detail) ==
    IF IsString(detail) THEN Ret(None)
    ELSE IF detail.t = "dict" THEN Ret(DictGet(detail, <<"details">>))
    ELSE [exc |-> "AttributeError", val |-> None]

\* BadRequestError._handle_details._handle_detail
BadRequest_handle_detail(detail) ==
    IF IsString(detail) THEN Ret(detail)
    ELSE IF detail.t = "dict" THEN Ret(DictGet(detail, <<"details">>))
    ELSE [exc |-> "AttributeError", val |-> None]

\* BadRequestError._handle_details
BadRequestError_handle_details(details) ==
    IF IsString(details) THEN Ret(details.v)
    ELSE
    LET has == PyIn(<<"errors">>, details)
    IN  IF has.exc # "" THEN Raise(has.exc)
        ELSE IF has.val
        THEN LET item == PyItem(details, <<"errors">>)
                 it   == PyIter(item.val)
                 mapped == [i \in 1..Len(it.val) |-> BadRequest_handle_detail(it.val[i])]
                 inner_details == SelectSeq([i \in 1..Len(mapped) |-> mapped[i].val],
                                            LAMBDA d : d.t # "null")
             IN  IF item.exc # "" THEN Raise(item.exc)
                 ELSE IF it.exc # "" THEN Raise(it.exc)
                 ELSE IF \E i \in 1..Len(mapped) : mapped[i].exc # ""
                 THEN Raise(mapped[CHOOSE i \in 1..Len(mapped) :
                                      /\ mapped[i].exc # ""
                                      /\ \A j \in 1..(i - 1) : mapped[j].exc = ""].exc)
                 ELSE PyJoin(<<"\n\t">>, PyList(inner_details))
        ELSE Ret(Str(details))

\* AccessDeniedError._handle_details
AccessDeniedError_handle_details(details) ==
    LET reasons == PyItem(details, <<"reasons">>)
        joined  == PyJoin(<<"\n\t\t">>, reasons.val)
    IN  IF reasons.exc # "" THEN Raise(reasons.exc)
        ELSE IF joined.exc # "" THEN Raise(joined.exc)
        ELSE Ret(<<"\n\tReasons:\n\t\t">> \o joined.val)

\* _handle_details without the test of resource_id against None
NotFoundError_handle_details_always_id(details) ==
    IF IsString(details) THEN Ret(details.v)
    ELSE
    LET type == PyItem(details, <<"type">>)
        message == <<"The requested ">> \o Str(type.val) \o <<" could not be found.">>
    IN  IF type.exc # "" THEN Raise(type.exc)
        ELSE Ret(message \o <<" ID: ">> \o Str(DictGet(details, <<"id">>)) \o <<".">>)

\* NotFoundError._handle_details
NotFoundError_handle_details(details) ==
    IF IsString(details) THEN Ret(details.v)
    ELSE
    LET type == PyItem(details, <<"type">>)
        message == <<"The requested ">> \o Str(type.val) \o <<" could not be found.">>
        resource_id == DictGet(details, <<"id">>)
    IN  IF type.exc # "" THEN Raise(type.exc)
        ELSE IF resource_id.t # "null"
        THEN Ret(message \o <<" ID: ">> \o Str(resource_id) \o <<".">>)
        ELSE Ret(message)

\* _handle_error appending the value only when it is not None
UnprocessableEntityError_handle_error_value_not_none(error, resp) ==
    LET hasName  == PyIn(<<"name">>, error)
        hasPath  == PyIn(<<"path">>, error)
        name     == PyItem(error, <<"name">>)
        path     == PyItem(error, <<"path">>)
        hasValue == PyIn(<<"value">>, error)
        value    == PyItem(error, <<"value">>)
        both     == hasName.val /\ hasPath.val
        message  == IF both
                    THEN <<"\t* Name: ">> \o Str(name.val) \o <<" - Path: '">>
                             \o Str(path.val) \o <<"'">>
                    ELSE default_error_message("UnprocessableEntityError", resp)
    IN  IF hasName.exc # "" THEN Raise(hasName.exc)
        ELSE IF hasName.val /\ hasPath.exc # "" THEN Raise(hasPath.exc)
        ELSE IF both /\ name.exc # "" THEN Raise(name.exc)
        ELSE IF both /\ path.exc # "" THEN Raise(path.exc)
        ELSE IF hasValue.exc # "" THEN Raise(hasValue.exc)
        ELSE IF hasValue.val /\ value.exc # "" THEN Raise(value.exc)
        ELSE IF hasValue.val /\ value.val.t # "null"
        THEN Ret(message \o <<" - Value: '">> \o Str(value.val) \o <<"'">>)
        ELSE Ret(message)

\* UnprocessableEntityError._handle_error
UnprocessableEntityError_handle_error(error, resp) ==
    LET hasName  == PyIn(<<"name">>, error)
        hasPath  == PyIn(<<"path">>, error)
        name     == PyItem(error, <<"name">>)
        path     == PyItem(error, <<"path">>)
        hasValue == PyIn(<<"value">>, error)
        value    == PyItem(error, <<"value">>)
        both     == hasName.val /\ hasPath.val
        message  == IF both
                    THEN <<"\t* Name: ">> \o Str(name.val) \o <<" - Path: '">>
                             \o Str(path.val) \o <<"'">>
                    ELSE default_error_message("UnprocessableEntityError", resp)
    IN  IF hasName.exc # "" THEN Raise(hasName.exc)
        ELSE IF hasName.val /\ hasPath.exc # "" THEN Raise(hasPath.exc)
        ELSE IF both /\ name.exc # "" THEN Raise(name.exc)
        ELSE IF both /\ path.exc # "" THEN Raise(path.exc)
        ELSE IF hasValue.exc # "" THEN Raise(hasValue.exc)
        ELSE IF hasValue.val /\ value.exc # "" THEN Raise(value.exc)
        ELSE IF hasValue.val
        THEN Ret(message \o <<" - Value: '">> \o Str(value.val) \o <<"'">>)
        ELSE Ret(message)

\* UnprocessableEntityError._handle_details
UnprocessableEntityError_handle_details(details, resp) ==
    LET item == PyItem(details, <<"errors">>)
        it   == PyIter(item.val)
        errors == [i \in 1..Len(it.val) |->
                      UnprocessableEntityError_handle_error(it.val[i], resp)]
    IN  IF item.exc # "" THEN Raise(item.exc)
        ELSE IF it.exc # "" THEN Raise(it.exc)
        ELSE IF \E i \in 1..Len(errors) : errors[i].exc # ""
        THEN Raise(errors[CHOOSE i \in 1..Len(errors) :
                             /\ errors[i].exc # ""
                             /\ \A j \in 1..(i - 1) : errors[j].exc = ""].exc)
        ELSE Ret(<<"\n">> \o Join(<<"\n">>, [i \in 1..Len(errors) |-> errors[i].val]))

\* self._handle_details(details), dispatched on the class
handle_details(cls, details, resp) ==
    CASE cls = "BadRequestError" -> BadRequestError_handle_details(details)
      [] cls = "AccessDeniedError" -> AccessDeniedError_handle_details(details)
      [] cls = "NotFoundError" -> NotFoundError_handle_details(details)
      [] cls = "UnprocessableEntityError" ->
            UnprocessableEntityError_handle_details(details, resp)
      [] OTHER -> HTTPError_handle_details(details)

\* _has_reset_time on a mapping that compares header names case-sensitively
has_reset_time_exact_case(resp) ==
    \E i \in 1..Len(resp.headers) : resp.headers[i].name = RATE_LIMIT_RESET_HEADER_KEY

\* RateLimitExceededError._has_reset_time
has_reset_time(resp) == HeaderHas(resp.headers, RATE_LIMIT_RESET_HEADER_KEY)

\* RateLimitExceededError.reset_time
reset_time(resp) ==
    LET header == HeaderItem(resp.headers, RATE_LIMIT_RESET_HEADER_KEY)
        n      == IntOf(header.val)
    IN  IF header.exc # "" THEN [exc |-> header.exc, val |-> 0]
        ELSE n

\* _has_additional_error_info without the RateLimitExceededError override
has_additional_error_info_base(cls, resp) == FALSE

\* self._has_additional_error_info()
has_additional_error_info(cls, resp) ==
    IF cls = "RateLimitExceededError" THEN has_reset_time(resp) ELSE FALSE

\* self._additional_error_info()
additional_error_info(cls, resp) ==
    IF cls = "RateLimitExceededError"
    THEN LET n == reset_time(resp)
         IN  IF n.exc # "" THEN Raise(n.exc)
             ELSE Ret(<< <<"Time until reset (seconds): ">> \o IntStr(n.val) >>)
    ELSE Ret(<<>>)

\* the Request ID line appended before the Details line
appended_request_id_first(message_line, details_lines, request_id_lines) ==
    <<message_line>> \o request_id_lines \o details_lines

\* the order in which the try block appends to error_message: the Message
\* line, then the Details line (if any), then the Request ID line (if any)
appended(message_line, details_lines, request_id_lines) ==
    <<message_line>> \o details_lines \o request_id_lines

\* the try block of _best_available_message: the lines it appended, and the
\* exception that ended it, if any
TryBlock(cls, resp) ==
    LET Compose(message, details, request_id, handled) ==
            LET messageLine == IF message.t # "null"
                               THEN <<"Message: ">> \o Str(message)
                               ELSE <<"Message: ">> \o default_error_message(cls, resp)
            IN  IF details.t # "null" /\ handled.exc # ""
                THEN [exc |-> handled.exc, lines |-> <<messageLine>>]
                ELSE [exc |-> "",
                      lines |-> appended(messageLine,
                                         IF details.t # "null"
                                         THEN << <<"Details: ">> \o handled.val >>
                                         ELSE <<>>,
                                         IF request_id.t # "null"
                                         THEN << <<"Request ID: ">> \o Str(request_id) >>
                                         ELSE <<>>)]
        Read(response_json) ==
            IF response_json.t # "dict"
            THEN [exc |-> "AttributeError", lines |-> <<>>]
            ELSE Compose(DictGet(response_json, <<"message">>),
                         DictGet(response_json, <<"details">>),
                         DictGet(response_json, <<"requestId">>),
                         handle_details(cls, DictGet(response_json, <<"details">>), resp))
        Parsed(parsed) ==
            IF parsed.exc # "" THEN [exc |-> parsed.exc, lines |-> <<>>]
            ELSE Read(parsed.val)
    IN  Parsed(json(resp))

\* HTTPError._best_available_message: the lines of error_message and their
\* join, or the exception that escapes
best_available_message(cls, resp) ==
    LET first == <<"HTTP status code: ">> \o IntStr(resp.status_code)
        Finish(error_message) ==
            [exc |-> "", lines |-> error_message,
             message |-> Join(<<"\n">>, error_message)]
        Extend(error_message, extra) ==
            IF extra.exc # ""
            THEN [exc |-> extra.exc, lines |-> <<>>, message |-> <<>>]
            ELSE Finish(error_message \o extra.val)
        Additional(error_message) ==
            IF has_additional_error_info(cls, resp)
            THEN Extend(error_message, additional_error_info(cls, resp))
            ELSE Finish(error_message)
        Tried(try) ==
            IF try.exc = ""
            THEN Additional(<<first>> \o try.lines)
            ELSE IF IsSubclass(try.exc, json_error_class)
            THEN Additional(<<first>> \o try.lines
                            \o << <<"Message: ">> \o default_error_message(cls, resp) >>)
            ELSE [exc |-> try.exc, lines |-> <<>>, message |-> <<>>]
    IN  Tried(TryBlock(cls, resp))

\* the errors dict of get_error: status code -> class
errors ==
    (400 :> "BadRequestError") @@ (401 :> "UnauthorizedError")
    @@ (403 :> "AccessDeniedError") @@ (404 :> "NotFoundError")
    @@ (409 :> "VersionMismatchError") @@ (422 :> "UnprocessableEntityError")
    @@ (429 :> "RateLimitExceededError") @@ (500 :> "ServerError")
    @@ (502 :> "BadGatewayError") @@ (503 :> "ServiceUnavailableError")

\* a lookup that falls back to the 4xx family's class instead of HTTPError
select_class_by_family(status_code) ==
    IF status_code \in DOMAIN errors THEN errors[status_code]
    ELSE IF status_code \div 100 = 4 THEN "BadRequestError"
    ELSE "HTTPError"

\* the class get_error picks for a status code
select_class(status_code) ==
    IF status_code \in DOMAIN errors THEN errors[status_code] ELSE "HTTPError"

\* HTTPError.__init__: the error object, or the exception that escapes
construct(cls, resp) ==
    LET Built(built) ==
            IF built.exc # ""
            THEN [exc |-> built.exc, cls |-> "", status_code |-> 0,
                  lines |-> <<>>, message |-> <<>>]
            ELSE [exc |-> "", cls |-> cls, status_code |-> resp.status_code,
                  lines |-> built.lines, message |-> built.message]
    IN  Built(best_available_message(cls, resp))

(***************************************************************************)
(* The responses the transport hands over.                                 *)
(***************************************************************************)
StatusCodes == {400, 401, 403, 404, 409, 422, 429, 500, 502, 503, 418, 200}

Header(name, value) == [name |-> name, value |-> value]

HeaderSets ==
    { <<>>,
      <<Header("Content-Type", <<"application/json">>)>>,
      <<Header("X-Contentful-RateLimit-Reset", <<"5">>)>>,
      <<Header("Content-Type", <<"application/json">>),
        Header("x-contentful-ratelimit-reset", <<"0", "1", "2">>)>>,
      <<Header("X-Contentful-RateLimit-Reset", <<"s", "o", "o", "n">>)>> }

\* the entries a details.errors list is made of
ErrorEntries ==
    { PyDict(<<KV("name", S("title")), KV("path", S("fields.title")), KV("value", S("x"))>>),
      PyDict(<<KV("name", S("title")), KV("path", S("fields.title"))>>),
      PyDict(<<KV("name", S("slug")), KV("details", S("d1")), KV("value", None)>>),
      PyDict(<<KV("details", None)>>),
      S("plain"),
      PyInt(5) }

\* sequences over a set, of length at most n
SeqsUpTo(set, n) == UNION {[1..m -> set] : m \in 0..n}

ErrorLists == SeqsUpTo(ErrorEntries, MaxErrors)

\* the details values a body carries
DetailsValues ==
    { S("boom"),
      PyInt(5),
      PyList(<<>>),
      PyList(<<S("errors")>>),
      PyDict(<<>>),
      PyDict(<<KV("sys", PyDict(<<KV("type", S("Error"))>>))>>),
      PyDict(<<KV("type", S("Entry")), KV("id", S("abc"))>>),
      PyDict(<<KV("type", S("Entry"))>>),
      PyDict(<<KV("type", S("Entry")), KV("id", None)>>),
      PyDict(<<KV("id", S("abc"))>>),
      PyDict(<<KV("id", PyInt(7)), KV("type", None)>>),
      PyDict(<<KV("reasons", PyList(<<S("r1"), S("r2")>>))>>),
      PyDict(<<KV("reasons", PyList(<<S("r1")>>))>>),
      PyDict(<<KV("reasons", PyList(<<>>))>>),
      PyDict(<<KV("reasons", S("r"))>>),
      PyDict(<<KV("reasons", PyList(<<PyInt(1)>>))>>),
      PyDict(<<KV("errors", S("e"))>>),
      PyDict(<<KV("errors", PyInt(5))>>),
      PyDict(<<KV("errors", PyList(<<PyDict(<<KV("details", PyInt(7))>>)>>))>>),
      PyDict(<<KV("errors", PyList(<<S("a"), S("name"), S("value")>>))>>) }
    \cup { PyDict(<<KV("errors", PyList(l))>>) : l \in ErrorLists }

\* the JSON values a body carries
BodyValues ==
    { PyDict(<<>>),
      PyDict(<<KV("message", S("m"))>>),
      PyDict(<<KV("message", None), KV("requestId", S("rid"))>>),
      PyDict(<<KV("requestId", PyInt(42))>>),
      PyDict(<<KV("message", PyInt(7)), KV("details", None)>>),
      PyDict(<<KV("sys", PyDict(<<KV("type", S("Error"))>>)), KV("message", S("m")),
               KV("message", S("m2"))>>),
      PyList(<<>>),
      PyList(<<S("a")>>),
      S("s"),
      PyInt(5),
      PyBool(TRUE),
      None }
    \cup { PyDict(<<KV("details", d)>>) : d \in DetailsValues }
    \cup { PyDict(<<KV("requestId", S("rid")), KV("details", d), KV("message", S("m"))>>) :
              d \in DetailsValues }

\* bodies that are not JSON
BadTexts ==
    { <<>>,
      <<"<html>">>,
      <<"{", "\"", "message", "\"">>,
      <<"{", "}", "x">>,
      <<"0", "5">> }

Texts == {Dumps(b) : b \in BodyValues} \cup BadTexts

NoResponse == [status_code |-> 0, headers |-> <<>>, text |-> <<>>]

NoOutcome == [exc |-> "", cls |-> "", status_code |-> 0, lines |-> <<>>, message |-> <<>>]

NoReset == [called |-> FALSE, exc |-> "", val |-> 0]

(***************************************************************************)
(* The state machine: a response arrives, get_error classifies it, the     *)
(* caller may ask a rate-limit error for its reset time, and the error is  *)
(* dropped.                                                                *)
(***************************************************************************)
Init ==
    /\ response = NoResponse
    /\ pc = "idle"
    /\ error_class = ""
    /\ outcome = NoOutcome
    /\ reset = NoReset

\* the transport receives a response that is to be classified
Receive ==
    /\ pc = "idle"
    /\ \E status \in StatusCodes, headers \in HeaderSets, text \in Texts :
          response' = [status_code |-> status, headers |-> headers, text |-> text]
    /\ pc' = "received"
    /\ UNCHANGED <<error_class, outcome, reset>>

\* get_error(response)
GetError ==
    /\ pc = "received"
    /\ error_class' = select_class(response.status_code)
    /\ outcome' = construct(error_class', response)
    /\ pc' = IF outcome'.exc = "" THEN "returned" ELSE "raised"
    /\ UNCHANGED <<response, reset>>

\* the caller calls reset_time() on a RateLimitExceededError it was given
ResetTime ==
    /\ pc = "returned"
    /\ outcome.cls = "RateLimitExceededError"
    /\ ~reset.called
    /\ reset' = [called |-> TRUE, exc |-> reset_time(response).exc,
                 val |-> reset_time(response).val]
    /\ UNCHANGED <<response, pc, error_class, outcome>>

\* the caller is done with the error (or the exception)
Drop ==
    /\ pc \in {"returned", "raised"}
    /\ response' = NoResponse
    /\ pc' = "idle"
    /\ error_class' = ""
    /\ outcome' = NoOutcome
    /\ reset' = NoReset

Next == Receive \/ GetError \/ ResetTime \/ Drop

Spec == Init /\ [][Next]_vars

(***************************************************************************)
(* Vocabulary of the properties.                                           *)
(***************************************************************************)
Classified == pc \in {"returned", "raised"}

Returned == pc = "returned"

\* what response.json() gives for the response at hand
Body == json(response)

BodyUnparseable == Body.exc # ""

BodyIsMapping == Body.exc = "" /\ Body.val.t = "dict"

BodyField(key) == DictGet(Body.val, <<key>>)

HasMessage == BodyIsMapping /\ BodyField("message").t # "null"

HasDetails == BodyIsMapping /\ BodyField("details").t # "null"

HasRequestId == BodyIsMapping /\ BodyField("requestId").t # "null"

RegisteredCodes == {400, 401, 403, 404, 409, 422, 429, 500, 502, 503}

\* the variant table of the specification, by status code
VariantOf(status) ==
    CASE status = 400 -> "BadRequestError"
      [] status = 401 -> "UnauthorizedError"
      [] status = 403 -> "AccessDeniedError"
      [] status = 404 -> "NotFoundError"
      [] status = 409 -> "VersionMismatchError"
      [] status = 422 -> "UnprocessableEntityError"
      [] status = 429 -> "RateLimitExceededError"
      [] status = 500 -> "ServerError"
      [] status = 502 -> "BadGatewayError"
      [] status = 503 -> "ServiceUnavailableError"
      [] OTHER -> "HTTPError"

\* the default message of the variant of the response at hand
VariantDefault ==
    CASE response.status_code \in {400, 503} ->
            <<"The request was malformed or missing a required parameter.">>
      [] response.status_code = 401 -> <<"The authorization token was invalid.">>
      [] response.status_code = 403 ->
            <<"The specified token does not have access to the requested resource.">>
      [] response.status_code = 404 ->
            <<"The requested resource or endpoint could not be found.">>
      [] response.status_code = 409 ->
            <<"Version mismatch error. The version you specified was incorrect. This may be due to someone else editing the content.">>
      [] response.status_code = 422 ->
            <<"The resource you sent in the body is invalid.">>
      [] response.status_code = 429 -> <<"Rate limit exceeded. Too many requests.">>
      [] response.status_code = 500 -> <<"Internal server error.">>
      [] response.status_code = 502 -> <<"The requested space is hibernated.">>
      [] OTHER -> <<"The following error was received: ">> \o response.text

StatusLine == <<"HTTP status code: ">> \o IntStr(response.status_code)

\* the two-line message of a response whose body does not parse
TwoLines == StatusLine \o <<"\n">> \o <<"Message: ">> \o VariantDefault

\* the response carries the rate-limit reset header, in any casing
HasResetHeader ==
    \E i \in 1..Len(response.headers) :
        response.headers[i].name \in {"x-contentful-ratelimit-reset",
                                      "X-Contentful-RateLimit-Reset"}

ResetHeaderValue ==
    response.headers[CHOOSE i \in 1..Len(response.headers) :
                        response.headers[i].name \in {"x-contentful-ratelimit-reset",
                                                      "X-Contentful-RateLimit-Reset"}].value

\* the reset header's value is the decimal text of n, leading zeros allowed
ResetHeaderIs(n) ==
    /\ HasResetHeader
    /\ \E z \in 0..2 : ResetHeaderValue = [i \in 1..z |-> "0"] \o NatStr(n)

ResetHeaderIsInteger == \E n \in 0..20 : ResetHeaderIs(n)

ResetLine(n) == <<"Time until reset (seconds): ">> \o IntStr(n)

\* the first chunk of every line of error_message
LineKinds == [i \in 1..Len(outcome.lines) |-> Head(outcome.lines[i])]

LastLine == outcome.lines[Len(outcome.lines)]

\* the text after "Details: " in the composed message
DetailsText == Tail(outcome.lines[3])

\* the line of one entry (a mapping) of a 422 details.errors, as the
\* specification's table gives it
EntryLine(entry) ==
    (IF DictHas(entry, <<"name">>) /\ DictHas(entry, <<"path">>)
     THEN <<"\t* Name: ">> \o Str(DictItem(entry, <<"name">>)) \o <<" - Path: '">>
              \o Str(DictItem(entry, <<"path">>)) \o <<"'">>
     ELSE <<"The resource you sent in the body is invalid.">>)
    \o (IF DictHas(entry, <<"value">>)
        THEN <<" - Value: '">> \o Str(DictItem(entry, <<"value">>)) \o <<"'">>
        ELSE <<>>)

\* details.errors is a list of mappings
ErrorsAreMappings(details) ==
    /\ details.t = "dict"
    /\ DictHas(details, <<"errors">>)
    /\ DictItem(details, <<"errors">>).t = "list"
    /\ \A i \in 1..Len(DictItem(details, <<"errors">>).v) :
          DictItem(details, <<"errors">>).v[i].t = "dict"

\* the details sub-fields of the mapping entries alone
SubFieldsOnly(entries) ==
    LET kept == SelectSeq(entries,
                          LAMBDA e : /\ e.t = "dict"
                                     /\ DictHas(e, <<"details">>)
                                     /\ DictItem(e, <<"details">>).t = "str")
    IN  [i \in 1..Len(kept) |-> DictItem(kept[i], <<"details">>).v]

\* details.errors is a list of strings and of mappings whose details
\* sub-field is a string, null or missing
ErrorsAreWellFormed(details) ==
    /\ details.t = "dict"
    /\ DictHas(details, <<"errors">>)
    /\ DictItem(details, <<"errors">>).t = "list"
    /\ \A i \in 1..Len(DictItem(details, <<"errors">>).v) :
          LET e == DictItem(details, <<"errors">>).v[i]
          IN  \/ e.t = "str"
              \/ e.t = "dict" /\ DictGet(e, <<"details">>).t \in {"str", "null"}

\* the string entries as they are, and the mapping entries' details sub-fields
StringsAndSubFields(entries) ==
    LET kept == SelectSeq(entries,
                          LAMBDA e : \/ e.t = "str"
                                     \/ /\ e.t = "dict"
                                        /\ DictHas(e, <<"details">>)
                                        /\ DictItem(e, <<"details">>).t = "str")
    IN  [i \in 1..Len(kept) |->
            IF kept[i].t = "str" THEN kept[i].v
            ELSE DictItem(kept[i], <<"details">>).v]

\* details has a list under key
HasList(details, key) ==
    /\ details.t = "dict"
    /\ DictHas(details, <<key>>)
    /\ DictItem(details, <<key>>).t = "list"

ShapeMismatch ==
    LET details == BodyField("details")
    IN  \/ response.status_code = 403 /\ ~HasList(details, "reasons")
        \/ response.status_code = 422 /\ ~HasList(details, "errors")
        \/ /\ response.status_code = 404
           /\ details.t # "str"
           /\ ~(details.t = "dict" /\ DictHas(details, <<"type">>))

(***************************************************************************)
(* C1: get_error never fails: whatever the status code, headers and body,  *)
(* it returns an error object and no exception escapes.                    *)
(***************************************************************************)
C1_NeverFails == pc # "raised"

(***************************************************************************)
(* C2: get_error selects the variant by exact status-code match (ten       *)
(* registered codes, HTTPError for any other), whatever the body and the   *)
(* headers; the returned error has that class and the response's status    *)
(* code.                                                                   *)
(***************************************************************************)
C2_VariantByStatus ==
    /\ Classified => error_class = VariantOf(response.status_code)
    /\ Returned => /\ outcome.cls = VariantOf(response.status_code)
                   /\ outcome.status_code = response.status_code

C2_Witness ==
    /\ Returned
    /\ response.status_code = 404
    /\ outcome.cls = "NotFoundError"
    /\ outcome.status_code = 404

(***************************************************************************)
(* C3 as stated: for a response with an unparseable body, of any status    *)
(* and with any headers, the composed message is exactly the status line   *)
(* and the default Message line.                                           *)
(***************************************************************************)
C3_Original == (Returned /\ BodyUnparseable) => outcome.message = TwoLines

(***************************************************************************)
(* C3 amended: for a response with an unparseable body the composed        *)
(* message is exactly the status line and the default Message line, with   *)
(* nothing after it, except that a 429 response carrying the reset header  *)
(* gets one more line "Time until reset (seconds): N" (and no message is   *)
(* composed when that header is not an integer: ValueError escapes).       *)
(***************************************************************************)
C3_Amended ==
    (Classified /\ BodyUnparseable) =>
        IF response.status_code = 429 /\ HasResetHeader
        THEN IF ResetHeaderIsInteger
             THEN /\ Returned
                  /\ \E n \in 0..20 :
                        /\ ResetHeaderIs(n)
                        /\ outcome.message = TwoLines \o <<"\n">> \o ResetLine(n)
             ELSE pc = "raised" /\ outcome.exc = "ValueError"
        ELSE Returned /\ outcome.message = TwoLines

C3_Witness ==
    /\ Returned
    /\ BodyUnparseable
    /\ response.status_code = 429
    /\ ResetHeaderIs(5)
    /\ Len(outcome.lines) = 3

(***************************************************************************)
(* C4: every constructed error has a non-empty message laid out in a       *)
(* fixed order: the status line, one Message line (the body's message when *)
(* non-null, else the variant default), a Details line iff the parsed body *)
(* has non-null details, a Request ID line iff it has a non-null           *)
(* requestId, then the variant's extra lines.                              *)
(***************************************************************************)
C4_Layout ==
    Returned =>
        /\ Len(outcome.message) > 0
        /\ outcome.message = Join(<<"\n">>, outcome.lines)
        /\ LineKinds = <<"HTTP status code: ", "Message: ">>
                       \o (IF HasDetails THEN <<"Details: ">> ELSE <<>>)
                       \o (IF HasRequestId THEN <<"Request ID: ">> ELSE <<>>)
                       \o (IF response.status_code = 429 /\ HasResetHeader
                           THEN <<"Time until reset (seconds): ">> ELSE <<>>)
        /\ outcome.lines[1] = StatusLine
        /\ outcome.lines[2] = <<"Message: ">>
                              \o (IF HasMessage THEN Str(BodyField("message"))
                                  ELSE VariantDefault)
        /\ HasRequestId =>
              outcome.lines[IF HasDetails THEN 4 ELSE 3]
                  = <<"Request ID: ">> \o Str(BodyField("requestId"))

C4_Witness ==
    /\ Returned
    /\ HasMessage /\ HasDetails /\ HasRequestId
    /\ response.status_code = 429 /\ HasResetHeader
    /\ Len(outcome.lines) = 5

(***************************************************************************)
(* C5: a 429 response whose reset header holds the integer N gives an      *)
(* error whose reset_time is N and whose message ends with "Time until     *)
(* reset (seconds): N", for an unparseable body as for a parsed one;       *)
(* without the header, and for every other variant, no such line is        *)
(* appended.                                                               *)
(***************************************************************************)
C5_ResetTime ==
    /\ \A n \in 0..20 :
          (Classified /\ response.status_code = 429 /\ ResetHeaderIs(n)
              /\ (BodyUnparseable \/ BodyIsMapping))
          => /\ Returned
             /\ LastLine = ResetLine(n)
             /\ reset.called => (reset.exc = "" /\ reset.val = n)
    /\ (Returned /\ ~(response.status_code = 429 /\ HasResetHeader))
          => \A i \in 1..Len(outcome.lines) :
                Head(outcome.lines[i]) # "Time until reset (seconds): "

C5_Witness ==
    /\ Returned
    /\ response.status_code = 429
    /\ ResetHeaderIs(12)
    /\ BodyIsMapping
    /\ reset.called /\ reset.val = 12
    /\ LastLine = <<"Time until reset (seconds): ", "1", "2">>

(***************************************************************************)
(* C6 as stated: for a status code outside the ten registered ones the     *)
(* error is the generic HTTPError and its message embeds the raw body      *)
(* text, for every body, with or without a message key.                    *)
(***************************************************************************)
C6_Original ==
    (Returned /\ response.status_code \notin RegisteredCodes) =>
        /\ outcome.cls = "HTTPError"
        /\ outcome.lines[2] = <<"Message: ", "The following error was received: ">>
                              \o response.text

(***************************************************************************)
(* C6 amended: for a status code outside the ten registered ones           *)
(* get_error picks the generic HTTPError; its message embeds the raw body  *)
(* text when the body is unparseable or parses to a mapping without a      *)
(* non-null message; when the mapping has a non-null message the Message   *)
(* line carries that message and the raw body text is not embedded (a body *)
(* that parses to something other than a mapping yields no error object:   *)
(* AttributeError escapes).                                                *)
(***************************************************************************)
C6_Amended ==
    (Classified /\ response.status_code \notin RegisteredCodes) =>
        /\ error_class = "HTTPError"
        /\ (BodyUnparseable \/ (BodyIsMapping /\ ~HasMessage)) =>
              /\ Returned
              /\ outcome.cls = "HTTPError"
              /\ outcome.lines[2] = <<"Message: ", "The following error was received: ">>
                                    \o response.text
        /\ HasMessage =>
              /\ Returned
              /\ outcome.cls = "HTTPError"
              /\ outcome.lines[2] = <<"Message: ">> \o Str(BodyField("message"))
              /\ \A i \in 1..Len(outcome.message) :
                    outcome.message[i] # "The following error was received: "
        /\ (~BodyUnparseable /\ ~BodyIsMapping) =>
              pc = "raised" /\ outcome.exc = "AttributeError"

C6_Witness ==
    /\ Returned
    /\ response.status_code = 418
    /\ BodyIsMapping /\ ~HasMessage /\ HasDetails
    /\ outcome.lines[2] = <<"Message: ", "The following error was received: ">>
                          \o response.text

(***************************************************************************)
(* C7: for a 404 response whose parsed body has non-null details, a string *)
(* details is carried unchanged; otherwise the Details line is "The        *)
(* requested {details.type} could not be found." followed by " ID: {id}."  *)
(* exactly when details.id is present and non-null.                        *)
(***************************************************************************)
C7_NotFoundDetails ==
    (Classified /\ response.status_code = 404 /\ HasDetails) =>
        LET details == BodyField("details")
        IN  /\ details.t = "str" => (Returned /\ DetailsText = details.v)
            /\ (details.t = "dict" /\ DictHas(details, <<"type">>)) =>
                  /\ Returned
                  /\ DetailsText =
                        <<"The requested ">> \o Str(DictItem(details, <<"type">>))
                            \o <<" could not be found.">>
                            \o (IF /\ DictHas(details, <<"id">>)
                                   /\ DictItem(details, <<"id">>).t # "null"
                                THEN <<" ID: ">> \o Str(DictItem(details, <<"id">>))
                                         \o <<".">>
                                ELSE <<>>)
            /\ details = PyDict(<<KV("type", S("Entry")), KV("id", S("abc"))>>) =>
                  outcome.lines[3] = <<"Details: ", "The requested ", "Entry",
                                       " could not be found.", " ID: ", "abc", ".">>

C7_Witness ==
    /\ Returned
    /\ response.status_code = 404
    /\ HasDetails
    /\ BodyField("details") = PyDict(<<KV("type", S("Entry")), KV("id", S("abc"))>>)
    /\ outcome.lines[3] = <<"Details: ", "The requested ", "Entry",
                            " could not be found.", " ID: ", "abc", ".">>

(***************************************************************************)
(* C8: for a 422 response the formatted details are a leading newline and  *)
(* one line per entry of details.errors, in order, joined by newlines: an  *)
(* entry with name and path gives "\t* Name: {name} - Path: '{path}'", any *)
(* other entry the 422 default message, with " - Value: '{value}'"         *)
(* appended exactly when the entry has a value key; there are as many      *)
(* entry lines as entries.                                                 *)
(***************************************************************************)
C8_UnprocessableDetails ==
    (Classified /\ response.status_code = 422 /\ HasDetails
        /\ ErrorsAreMappings(BodyField("details"))) =>
        LET entries == DictItem(BodyField("details"), <<"errors">>).v
        IN  /\ Returned
            /\ DetailsText =
                  <<"\n">> \o Join(<<"\n">>, [i \in 1..Len(entries) |-> EntryLine(entries[i])])
            /\ Cardinality({i \in 1..Len(DetailsText) :
                               DetailsText[i] \in
                                   {"\t* Name: ",
                                    "The resource you sent in the body is invalid."}})
                  = Len(entries)

C8_Witness ==
    /\ Returned
    /\ response.status_code = 422
    /\ HasDetails
    /\ BodyField("details") =
          PyDict(<<KV("errors", PyList(<<
              PyDict(<<KV("name", S("title")), KV("path", S("fields.title")),
                       KV("value", S("x"))>>) >>))>>)
    /\ DetailsText = <<"\n", "\t* Name: ", "title", " - Path: '", "fields.title", "'",
                       " - Value: '", "x", "'">>

(***************************************************************************)
(* C9 as stated: for a 400 response a string details is used as is; with   *)
(* an errors key the result is the details sub-field of each entry of      *)
(* details.errors, in order, joined with "\n\t", every entry that yields   *)
(* none (an entry that is a plain string among them) being skipped;        *)
(* otherwise the whole details value is stringified.                       *)
(***************************************************************************)
C9_Original ==
    (Returned /\ response.status_code = 400 /\ HasDetails) =>
        LET details == BodyField("details")
        IN  /\ details.t = "str" => DetailsText = details.v
            /\ ErrorsAreWellFormed(details) =>
                  DetailsText = Join(<<"\n\t">>,
                                     SubFieldsOnly(DictItem(details, <<"errors">>).v))
            /\ (details.t = "dict" /\ ~DictHas(details, <<"errors">>)) =>
                  DetailsText = Str(details)

(***************************************************************************)
(* C9 amended: for a 400 response a string details is used as is; with an  *)
(* errors key holding a list of strings and mappings, the result is, in    *)
(* order and joined with "\n\t", each plain-string entry as it is and the  *)
(* details sub-field of each mapping entry, a mapping entry whose details  *)
(* is missing or null being skipped; a mapping without an errors key is    *)
(* stringified whole.                                                      *)
(***************************************************************************)
C9_Amended ==
    (Classified /\ response.status_code = 400 /\ HasDetails) =>
        LET details == BodyField("details")
        IN  /\ details.t = "str" => (Returned /\ DetailsText = details.v)
            /\ ErrorsAreWellFormed(details) =>
                  /\ Returned
                  /\ DetailsText = Join(<<"\n\t">>,
                                        StringsAndSubFields(DictItem(details, <<"errors">>).v))
            /\ (details.t = "dict" /\ ~DictHas(details, <<"errors">>)) =>
                  (Returned /\ DetailsText = Str(details))

C9_Witness ==
    /\ Returned
    /\ response.status_code = 400
    /\ HasDetails
    /\ BodyField("details") =
          PyDict(<<KV("errors", PyList(<<
              S("plain"),
              PyDict(<<KV("name", S("slug")), KV("details", S("d1")),
                       KV("value", None)>>) >>))>>)
    /\ DetailsText = <<"plain", "\n\t", "d1">>

(***************************************************************************)
(* C10: detail formatting fails soft for every variant: when the details   *)
(* of the parsed body do not have the shape the selected variant expects   *)
(* (403 without a reasons list, 422 without an errors list, 404 non-string *)
(* without type, a plain string handed to 403 or 422), formatting does not *)
(* raise and the Details line carries the stringified details.             *)
(***************************************************************************)
C10_FailSoft ==
    (Classified /\ HasDetails /\ ShapeMismatch) =>
        /\ Returned
        /\ outcome.lines[3] = <<"Details: ">> \o Str(BodyField("details"))

=============================================================================
